---- MODULE Spec2Model ----
(***************************************************************************)
(* nginx-accesslog-exporter: the follower (package tail), main and the     *)
(* processLogFile loop, as a state machine.                                *)
(*                                                                         *)
(* A text (a Go string) is a sequence of atoms; the atom " " is white      *)
(* space, <<>> is the empty string.  A raw log line is the sequence of the *)
(* texts that the literals of the format separate.  Every line ever        *)
(* written to the log path is kept in `written`; a line is named by its    *)
(* index there.                                                            *)
(***************************************************************************)
EXTENDS Integers, Sequences, FiniteSets, TLC

\* ------------------------------------------------------------------ bounds
MaxLines == 2
MaxHist == 1

\* ------------------------------------------------------------ input domains
EmptyText == <<>>

\* --format: the field names of the template, in template order
FormatAll == <<"status", "request_time", "request", "body_bytes_sent", "upstream_response_time">>
FormatShort == <<"status", "request_time">>
FormatNoStatus == <<"remote_addr", "msec", "request">>
Formats == {FormatAll, FormatShort, FormatNoStatus}

\* --labels: static key/value pairs, a set of <<key, value>>
NoStaticLabels == {}
LabelsEnv == {<<"env", "prod">>}
LabelConfigs == {NoStaticLabels, LabelsEnv}

\* raw lines: the parts are, for FormatAll, status, request_time, request,
\* body_bytes_sent, upstream_response_time
LineBad == << <<"abc">> >>
LineFull == << <<"200">>, <<"3">>, <<"GET", " ", "/x">>, <<"1">>, <<"2">> >>
LineEmptyRequest == << <<"400">>, <<"0">>, <<>>, <<"0">>, <<"-">> >>
LineBlankRequest == << <<"408">>, <<"1">>, <<" ">>, <<"1">>, <<"2">> >>
LineNoNumbers == << <<"404">>, <<"1">>, <<" ", "POST", " ", "/y">>, <<"-">>, <<"-">> >>
LineNegBytes == << <<"200">>, <<>>, <<"GET", " ", "/x">>, <<"-1">>, <<"2">> >>
LineSet == {LineBad, LineFull, LineEmptyRequest, LineBlankRequest, LineNoNumbers,
            LineNegBytes}
\* Nothing observes the text of a line before the tail goroutine reads it:
\* a line in the file is Unread until then, and its text is drawn when it is read.
Unread == <<>>

\* ------------------------------------------------------------------- state
VARIABLES
    written,      \* every line ever written to the log path, in write order
    nHist,        \* how many of them were in the file before the process started
    pathState,    \* "missing" | "unreadable" | "ok": the configured path
    gen,          \* generation of the file now at the path (a rotation makes a new one)
    curLo,        \* the file at the path holds written[curLo+1 .. Len(written)]
    tpc,          \* position of the tail goroutine (tailFileSync)
    tGen,         \* generation of the file the tail goroutine has open
    tPos,         \* lines of `written` it has read so far (its offset)
    tHi,          \* where its file ends once that file was rotated away
    tErr,         \* "nil" | "err": the error it dies with
    truncEvt,     \* a truncation of the followed file awaits the tail goroutine
    linesClosed,  \* the Lines channel has been closed
    tomb,         \* "alive" | "nil" | "err": what Wait() returns once dead
    wpc,          \* position of the goroutine OnError starts
    cbCalls,      \* calls of the error callback
    mpc,          \* position of main
    format,       \* cfg.LogConfig.Format
    parser,       \* the compiled parser, <<>> before NewParser
    registered,   \* Metrics.Init has run
    Labels,       \* cfg.Labels, the static labels of the command line
    constLabels,  \* the static labels the registered collectors carry
    cpc,          \* position of processLogFile
    curLine,      \* the line being processed (0: none)
    entry,        \* its parsed entry
    labelValues,
    delivered,    \* the lines received from Lines(), in order
    countTotal, bytesTotal, upstreamSeconds, upstreamSecondsHist, upstreamBytes,
    responseSeconds, responseSecondsHist, responseBytes, parseErrorsTotal,
    proc,         \* "running" | "exited"
    exitCause,    \* what ended it
    scraping      \* a scrape request is being served

envVars == <<written, nHist, pathState, gen, curLo>>
tailVars == <<tpc, tGen, tPos, tHi, tErr, truncEvt, linesClosed, tomb>>
waitVars == <<wpc, cbCalls>>
mainVars == <<mpc, format, parser, registered, Labels, constLabels>>
consVars == <<cpc, curLine, entry, labelValues, delivered>>
metricVars == <<countTotal, bytesTotal, upstreamSeconds, upstreamSecondsHist, upstreamBytes,
                responseSeconds, responseSecondsHist, responseBytes, parseErrorsTotal>>
procVars == <<proc, exitCause>>
vars == <<envVars, tailVars, waitVars, mainVars, consVars, metricVars, procVars, scraping>>


\* ----------------------------------------------------------------- helpers
IsSpace(a) == a = " "

\* strings.Fields: the maximal runs of non-space atoms, in order
RECURSIVE FieldsFrom(_, _, _, _)
FieldsFrom(s, i, word, acc) ==
    IF i > Len(s)
    THEN IF word = <<>> THEN acc ELSE Append(acc, word)
    ELSE IF IsSpace(s[i])
         THEN FieldsFrom(s, i + 1, <<>>, IF word = <<>> THEN acc ELSE Append(acc, word))
         ELSE FieldsFrom(s, i + 1, Append(word, s[i]), acc)

Fields(s) == FieldsFrom(s, 1, <<>>, <<>>)

\* strconv.ParseFloat on the texts of the input domain
NumVal == [a \in {"0", "1", "2", "3", "-1", "200", "400", "404", "408"} |->
             CASE a = "0" -> 0 [] a = "1" -> 1 [] a = "2" -> 2 [] a = "3" -> 3
               [] a = "-1" -> 0 - 1 [] a = "200" -> 200 [] a = "400" -> 400
               [] a = "404" -> 404 [] a = "408" -> 408]

ParseFloatOk(t) == Len(t) = 1 /\ t[1] \in DOMAIN NumVal
ParseFloat(t) == NumVal[t[1]]

\* gonx Parser.ParseString: the format's fields are matched in order, each up
\* to the literal that follows it; a line with fewer parts than the format
\* has fields does not match.
ParseOk(fmt, line) == Len(line) >= Len(fmt)
ParseString(fmt, line) ==
    [name \in {fmt[i] : i \in 1..Len(fmt)} |->
        line[CHOOSE i \in 1..Len(fmt) : fmt[i] = name]]

\* gonx Entry.Field / Entry.FloatField
FieldOk(e, name) == name \in DOMAIN e
Field(e, name) == e[name]
FloatFieldOk(e, name) == FieldOk(e, name) /\ ParseFloatOk(Field(e, name))
FloatField(e, name) == ParseFloat(Field(e, name))

\* prometheus CounterVec.WithLabelValues(lv...).Inc() / .Add(v)
CounterAdd(vec, lv, v) ==
    IF lv \in DOMAIN vec THEN [vec EXCEPT ![lv] = @ + v] ELSE vec @@ (lv :> v)
\* prometheus SummaryVec / HistogramVec .WithLabelValues(lv...).Observe(v)
Observe(vec, lv, v) ==
    IF lv \in DOMAIN vec
    THEN [vec EXCEPT ![lv] = [count |-> @.count + 1, sum |-> @.sum + v]]
    ELSE vec @@ (lv :> [count |-> 1, sum |-> v])

EmptyVec == [lv \in {} |-> 0]
NoEntry == [name \in {} |-> EmptyText]
NoLabels == <<EmptyText, EmptyText>>

\* tail.Config{Follow: true}: every other field keeps its zero value.
\*   Follow    continue looking for new lines at the end of the file
\*   ReOpen    reopen a file that was moved or removed; unset, the tail stops
\*             there, without an error
\*   MustExist fail early, in TailFile, if the file cannot be opened; unset,
\*             the tail goroutine opens it, waiting for a missing file
\*   Location  where to start reading; unset, the start of the file
ConfigFollow == TRUE
ConfigReOpen == FALSE
ConfigMustExist == FALSE
ConfigLocationSet == FALSE

\* tail.TailFile opens the file itself only under MustExist
TailFileErr(ps) == ConfigMustExist /\ ps # "ok"

\* the end of the file the tail goroutine holds open
FdEnd == IF tGen = gen THEN Len(written) ELSE tHi
AtEOF == truncEvt \/ tPos >= FdEnd

Running == proc = "running"
Exit(cause) == proc' = "exited" /\ exitCause' = cause

\* -------------------------------------------------------------------- Init
Histories == {[i \in 1..n |-> Unread] : n \in 0..MaxHist}

Init ==
    /\ pathState \in {"missing", "unreadable", "ok"}
    /\ written \in (IF pathState = "missing" THEN {<<>>}
                    ELSE Histories)
    /\ nHist = Len(written)
    /\ gen = 1 /\ curLo = 0
    /\ tpc = "none" /\ tGen = 0 /\ tPos = 0 /\ tHi = 0 /\ tErr = "nil"
    /\ truncEvt = FALSE /\ linesClosed = FALSE /\ tomb = "alive"
    /\ wpc = "none" /\ cbCalls = 0
    /\ mpc = "parseArgs" /\ format = <<>> /\ parser = <<>> /\ registered = FALSE
    /\ Labels = NoStaticLabels /\ constLabels = NoStaticLabels
    /\ cpc = "none" /\ curLine = 0 /\ entry = NoEntry /\ labelValues = NoLabels
    /\ delivered = <<>>
    /\ countTotal = EmptyVec /\ bytesTotal = EmptyVec
    /\ upstreamSeconds = EmptyVec /\ upstreamSecondsHist = EmptyVec
    /\ upstreamBytes = EmptyVec
    /\ responseSeconds = EmptyVec /\ responseSecondsHist = EmptyVec
    /\ responseBytes = EmptyVec /\ parseErrorsTotal = 0
    /\ proc = "running" /\ exitCause = "none"
    /\ scraping = FALSE


\* ------------------------------------------------ the log writer (nginx, logrotate)
\* a line is appended to the file at the path
AppendLine ==
    /\ Running /\ tpc # "none"
    /\ pathState = "ok" /\ Len(written) < MaxLines
    /\ written' = Append(written, Unread)
    /\ UNCHANGED <<nHist, pathState, gen, curLo>>
    /\ UNCHANGED <<tailVars, waitVars, mainVars, consVars, metricVars, procVars, scraping>>

\* the file the tail goroutine has open is renamed away (or removed) and a
\* new, empty one is created at the path
Rotate ==
    /\ Running /\ tpc # "none"
    /\ pathState = "ok" /\ tGen = gen
    /\ gen' = gen + 1
    /\ curLo' = Len(written)
    /\ tHi' = IF tGen = gen THEN Len(written) ELSE tHi
    /\ UNCHANGED <<written, nHist, pathState>>
    /\ UNCHANGED <<tpc, tGen, tPos, tErr, truncEvt, linesClosed, tomb>>
    /\ UNCHANGED <<waitVars, mainVars, consVars, metricVars, procVars, scraping>>

\* the file at the path, not empty, is truncated in place (copytruncate)
Truncate ==
    /\ Running /\ tpc # "none"
    /\ pathState = "ok"
    /\ Len(written) > curLo
    /\ curLo' = Len(written)
    /\ truncEvt' = (truncEvt \/ (tGen = gen /\ tpc \in {"read", "send"}))
    /\ UNCHANGED <<written, nHist, pathState, gen>>
    /\ UNCHANGED <<tpc, tGen, tPos, tHi, tErr, linesClosed, tomb>>
    /\ UNCHANGED <<waitVars, mainVars, consVars, metricVars, procVars, scraping>>

\* the missing file is created at the path
Create ==
    /\ Running /\ tpc # "none"
    /\ pathState = "missing"
    /\ pathState' = "ok"
    /\ UNCHANGED <<written, nHist, gen, curLo>>
    /\ UNCHANGED <<tailVars, waitVars, mainVars, consVars, metricVars, procVars, scraping>>

\* ------------------------------------------------------------------- main
\* flags.ParseArgs, and the panic on its error
MainParseArgs(ok, fmt, lbls) ==
    /\ Running /\ mpc = "parseArgs"
    /\ IF ok
       THEN /\ format' = fmt /\ Labels' = lbls /\ mpc' = "newFollower"
            /\ UNCHANGED procVars
       ELSE /\ Exit("args_panic")
            /\ UNCHANGED <<format, Labels, mpc>>
    /\ UNCHANGED <<parser, registered, constLabels>>
    /\ UNCHANGED <<envVars, tailVars, waitVars, consVars, metricVars, scraping>>

\* tail.NewFollower -> follower.start -> tail.TailFile, which starts the
\* tailFileSync goroutine; main panics on an error
MainNewFollower ==
    /\ Running /\ mpc = "newFollower"
    /\ IF TailFileErr(pathState)
       THEN /\ Exit("open_panic")
            /\ UNCHANGED <<mpc, tpc>>
       ELSE /\ tpc' = "open" /\ mpc' = "onError"
            /\ UNCHANGED procVars
    /\ UNCHANGED <<format, parser, registered, Labels, constLabels>>
    /\ UNCHANGED <<tGen, tPos, tHi, tErr, truncEvt, linesClosed, tomb>>
    /\ UNCHANGED <<envVars, waitVars, consVars, metricVars, scraping>>

\* t.OnError(cb): starts the goroutine that waits for the tail to die
MainOnError ==
    /\ Running /\ mpc = "onError"
    /\ wpc' = "waiting" /\ mpc' = "init"
    /\ UNCHANGED <<cbCalls, format, parser, registered, Labels, constLabels>>
    /\ UNCHANGED <<envVars, tailVars, consVars, metricVars, procVars, scraping>>

\* a variant of this step of main that compiles the format and registers nothing
MainMetricsInitNoRegistry ==
    /\ Running /\ mpc = "init"
    /\ parser' = format
    /\ mpc' = "go"
    /\ UNCHANGED <<format, registered, Labels, constLabels>>
    /\ UNCHANGED <<envVars, tailVars, waitVars, consVars, metricVars, procVars, scraping>>

\* metrics.Init(): creates and registers the nine collectors, each with the
\* variable labels status and method and no constant label (Init takes no
\* argument and reads no configuration); then gonx.NewParser(cfg.LogConfig.Format)
MainMetricsInit ==
    /\ Running /\ mpc = "init"
    /\ registered' = TRUE
    /\ constLabels' = NoStaticLabels
    /\ parser' = format
    /\ mpc' = "go"
    /\ UNCHANGED <<format, Labels>>
    /\ UNCHANGED <<envVars, tailVars, waitVars, consVars, metricVars, procVars, scraping>>

\* go processLogFile(...)
MainGo ==
    /\ Running /\ mpc = "go"
    /\ cpc' = "recv" /\ mpc' = "listen"
    /\ UNCHANGED <<format, parser, registered, Labels, constLabels>>
    /\ UNCHANGED <<curLine, entry, labelValues, delivered>>
    /\ UNCHANGED <<envVars, tailVars, waitVars, metricVars, procVars, scraping>>

\* http.Handle; http.ListenAndServe: serves until it fails; its error is
\* dropped and main returns, which ends the process
MainListen(bindOk) ==
    /\ Running /\ mpc = "listen"
    /\ IF bindOk
       THEN /\ mpc' = "serving"
            /\ UNCHANGED procVars
       ELSE /\ mpc' = "returned"
            /\ Exit("listen_returned")
    /\ UNCHANGED <<format, parser, registered, Labels, constLabels>>
    /\ UNCHANGED <<envVars, tailVars, waitVars, consVars, metricVars, scraping>>

\* a GET on the telemetry path arrives: prometheus.Handler() starts to read
\* the registry, concurrently with everything else
ScrapeBegin ==
    /\ Running /\ mpc = "serving"
    /\ ~scraping
    /\ scraping' = TRUE
    /\ UNCHANGED <<envVars, tailVars, waitVars, mainVars, consVars, metricVars, procVars>>

\* a variant of the handler that resets the request counter once collected
ScrapeEndResets ==
    /\ Running /\ scraping
    /\ scraping' = FALSE
    /\ countTotal' = EmptyVec
    /\ UNCHANGED <<bytesTotal, upstreamSeconds, upstreamSecondsHist, upstreamBytes,
                   responseSeconds, responseSecondsHist, responseBytes, parseErrorsTotal>>
    /\ UNCHANGED <<envVars, tailVars, waitVars, mainVars, consVars, procVars>>

\* the handler has written its response
ScrapeEnd ==
    /\ Running /\ scraping
    /\ scraping' = FALSE
    /\ UNCHANGED <<envVars, tailVars, waitVars, mainVars, consVars, metricVars, procVars>>

\* ------------------------------------------------- the tail goroutine (tailFileSync)
\* the deferred first open: waits for a missing file to appear, dies with an
\* error on a file it cannot open, and otherwise reads from the configured
\* location (none: the start of the file)
TailOpen ==
    /\ Running /\ tpc = "open"
    /\ pathState # "missing"
    /\ IF pathState = "ok"
       THEN /\ tGen' = gen
            /\ tPos' = IF ConfigLocationSet THEN Len(written) ELSE curLo
            /\ tpc' = "read"
            /\ UNCHANGED tErr
       ELSE /\ tErr' = "err" /\ tpc' = "closing"
            /\ UNCHANGED <<tGen, tPos>>
    /\ UNCHANGED <<tHi, truncEvt, linesClosed, tomb>>
    /\ UNCHANGED <<envVars, waitVars, mainVars, consVars, metricVars, procVars, scraping>>

\* reads the next line of the open file
TailReadLine(l) ==
    /\ Running /\ tpc = "read"
    /\ ~AtEOF
    /\ written[tPos + 1] \in {Unread, l}
    /\ written' = [written EXCEPT ![tPos + 1] = l]
    /\ tPos' = tPos + 1
    /\ tpc' = "send"
    /\ UNCHANGED <<tGen, tHi, tErr, truncEvt, linesClosed, tomb>>
    /\ UNCHANGED <<nHist, pathState, gen, curLo>>
    /\ UNCHANGED <<waitVars, mainVars, consVars, metricVars, procVars, scraping>>

\* at the end of the file, waitForChanges reports the file deleted or moved:
\* reopened under ReOpen, else the tail stops (ErrStop, no error)
TailDeleted ==
    /\ Running /\ tpc = "read"
    /\ AtEOF
    /\ ~ConfigFollow \/ tGen # gen
    /\ IF ConfigFollow /\ ConfigReOpen
       THEN /\ tpc' = "open" /\ truncEvt' = FALSE
            /\ UNCHANGED tErr
       ELSE /\ tpc' = "closing" /\ tErr' = "nil"
            /\ UNCHANGED truncEvt
    /\ UNCHANGED <<tGen, tPos, tHi, linesClosed, tomb>>
    /\ UNCHANGED <<envVars, waitVars, mainVars, consVars, metricVars, procVars, scraping>>

\* at the end of the file, waitForChanges reports the file truncated: the
\* file is reopened and read from its start
TailTruncated ==
    /\ Running /\ tpc = "read"
    /\ ConfigFollow /\ truncEvt /\ tGen = gen
    /\ truncEvt' = FALSE
    /\ tPos' = curLo
    /\ UNCHANGED <<tpc, tGen, tHi, tErr, linesClosed, tomb>>
    /\ UNCHANGED <<envVars, waitVars, mainVars, consVars, metricVars, procVars, scraping>>

\* tail.Lines <- line, received by `for line := range t.Lines()`
Deliver ==
    /\ Running /\ tpc = "send" /\ cpc = "recv"
    /\ tpc' = "read"
    /\ cpc' = "parse"
    /\ curLine' = tPos
    /\ delivered' = Append(delivered, tPos)
    /\ UNCHANGED <<entry, labelValues>>
    /\ UNCHANGED <<tGen, tPos, tHi, tErr, truncEvt, linesClosed, tomb>>
    /\ UNCHANGED <<envVars, waitVars, mainVars, metricVars, procVars, scraping>>

\* deferred tail.close(): closes the Lines channel
TailClose ==
    /\ Running /\ tpc = "closing"
    /\ linesClosed' = TRUE
    /\ tpc' = "finishing"
    /\ UNCHANGED <<tGen, tPos, tHi, tErr, truncEvt, tomb>>
    /\ UNCHANGED <<envVars, waitVars, mainVars, consVars, metricVars, procVars, scraping>>

\* deferred tail.Done(): the tomb is dead, Wait() returns its error
TailDone ==
    /\ Running /\ tpc = "finishing"
    /\ tomb' = tErr
    /\ tpc' = "dead"
    /\ UNCHANGED <<tGen, tPos, tHi, tErr, truncEvt, linesClosed>>
    /\ UNCHANGED <<envVars, waitVars, mainVars, consVars, metricVars, procVars, scraping>>

\* ------------------------------------------------ the goroutine of follower.OnError
\* a variant without the `err != nil` test: the callback runs whenever Wait() returns
OnErrorWaitNoNilTest ==
    /\ Running /\ wpc = "waiting"
    /\ tomb # "alive"
    /\ cbCalls' = cbCalls + 1
    /\ wpc' = "callback"
    /\ Exit("follower_panic")
    /\ UNCHANGED <<envVars, tailVars, mainVars, consVars, metricVars, scraping>>

\* f.t.Wait() returns; the callback, which panics, runs on a non-nil error
OnErrorWait ==
    /\ Running /\ wpc = "waiting"
    /\ tomb # "alive"
    /\ IF tomb = "err"
       THEN /\ cbCalls' = cbCalls + 1
            /\ wpc' = "callback"
            /\ Exit("follower_panic")
       ELSE /\ wpc' = "done"
            /\ UNCHANGED <<cbCalls, procVars>>
    /\ UNCHANGED <<envVars, tailVars, mainVars, consVars, metricVars, scraping>>


\* ------------------------------------------------------------ processLogFile
\* labelValues of an entry: [0] is the status field, [1] the first of
\* strings.Fields(request); chunks[0] of an empty chunks panics
LabelsPanic(e) == FieldOk(e, "request") /\ Len(Fields(Field(e, "request"))) = 0
LabelsOf(e) ==
    << IF FieldOk(e, "status") THEN Field(e, "status") ELSE EmptyText,
       IF FieldOk(e, "request") THEN Fields(Field(e, "request"))[1] ELSE EmptyText >>

\* back to the head of the loop: the loop's locals are gone
NextLine ==
    /\ cpc' = "recv"
    /\ curLine' = 0 /\ entry' = NoEntry /\ labelValues' = NoLabels

\* the Lines channel is closed and drained: the range loop and the goroutine end
ConsumerEnd ==
    /\ Running /\ cpc = "recv"
    /\ linesClosed /\ tpc # "send"
    /\ cpc' = "done"
    /\ UNCHANGED <<curLine, entry, labelValues, delivered>>
    /\ UNCHANGED <<envVars, tailVars, waitVars, mainVars, metricVars, procVars, scraping>>

\* parser.ParseString(line.Text); on an error log.Fatalf, which exits the
\* process before the statements that follow it; else labelValues from the
\* status and request fields
ConsumerParse ==
    /\ Running /\ cpc = "parse"
    /\ IF ~ParseOk(parser, written[curLine])
       THEN /\ Exit("parse_fatal")
            /\ UNCHANGED <<entry, labelValues, cpc>>
       ELSE /\ entry' = ParseString(parser, written[curLine])
            /\ IF LabelsPanic(entry')
               THEN /\ Exit("index_panic")
                    /\ UNCHANGED <<labelValues, cpc>>
               ELSE /\ labelValues' = LabelsOf(entry')
                    /\ cpc' = "count"
                    /\ UNCHANGED procVars
    /\ UNCHANGED <<curLine, delivered>>
    /\ UNCHANGED <<envVars, tailVars, waitVars, mainVars, metricVars, scraping>>

\* metrics.countTotal.WithLabelValues(labelValues...).Inc()
ConsumerCount ==
    /\ Running /\ cpc = "count"
    /\ countTotal' = CounterAdd(countTotal, labelValues, 1)
    /\ cpc' = "bytes"
    /\ UNCHANGED <<curLine, entry, labelValues, delivered>>
    /\ UNCHANGED <<bytesTotal, upstreamSeconds, upstreamSecondsHist, upstreamBytes,
                   responseSeconds, responseSecondsHist, responseBytes, parseErrorsTotal>>
    /\ UNCHANGED <<envVars, tailVars, waitVars, mainVars, procVars, scraping>>

\* a variant that adds the bytes of the line to the response-bytes family as well
ConsumerBytesAlsoResponseBytes ==
    /\ Running /\ cpc = "bytes"
    /\ IF FloatFieldOk(entry, "body_bytes_sent")
       THEN IF FloatField(entry, "body_bytes_sent") < 0
            THEN /\ Exit("counter_panic")
                 /\ UNCHANGED <<bytesTotal, responseBytes, cpc>>
            ELSE /\ bytesTotal' = CounterAdd(bytesTotal, labelValues,
                                             FloatField(entry, "body_bytes_sent"))
                 /\ responseBytes' = CounterAdd(responseBytes, labelValues,
                                                FloatField(entry, "body_bytes_sent"))
                 /\ cpc' = "upstream"
                 /\ UNCHANGED procVars
       ELSE /\ cpc' = "upstream"
            /\ UNCHANGED <<bytesTotal, responseBytes, procVars>>
    /\ UNCHANGED <<curLine, entry, labelValues, delivered>>
    /\ UNCHANGED <<countTotal, upstreamSeconds, upstreamSecondsHist, upstreamBytes,
                   responseSeconds, responseSecondsHist, parseErrorsTotal>>
    /\ UNCHANGED <<envVars, tailVars, waitVars, mainVars, scraping>>

\* body_bytes_sent: bytesTotal.Add(bytes); Counter.Add panics on a negative value
ConsumerBytes ==
    /\ Running /\ cpc = "bytes"
    /\ IF FloatFieldOk(entry, "body_bytes_sent")
       THEN IF FloatField(entry, "body_bytes_sent") < 0
            THEN /\ Exit("counter_panic")
                 /\ UNCHANGED <<bytesTotal, cpc>>
            ELSE /\ bytesTotal' = CounterAdd(bytesTotal, labelValues,
                                             FloatField(entry, "body_bytes_sent"))
                 /\ cpc' = "upstream"
                 /\ UNCHANGED procVars
       ELSE /\ cpc' = "upstream"
            /\ UNCHANGED <<bytesTotal, procVars>>
    /\ UNCHANGED <<curLine, entry, labelValues, delivered>>
    /\ UNCHANGED <<countTotal, upstreamSeconds, upstreamSecondsHist, upstreamBytes,
                   responseSeconds, responseSecondsHist, responseBytes, parseErrorsTotal>>
    /\ UNCHANGED <<envVars, tailVars, waitVars, mainVars, scraping>>

\* upstream_response_time: upstreamSeconds.Observe
ConsumerUpstream ==
    /\ Running /\ cpc = "upstream"
    /\ IF FloatFieldOk(entry, "upstream_response_time")
       THEN /\ upstreamSeconds' = Observe(upstreamSeconds, labelValues,
                                          FloatField(entry, "upstream_response_time"))
            /\ cpc' = "upstreamHist"
       ELSE /\ cpc' = "response"
            /\ UNCHANGED upstreamSeconds
    /\ UNCHANGED <<curLine, entry, labelValues, delivered>>
    /\ UNCHANGED <<countTotal, bytesTotal, upstreamSecondsHist, upstreamBytes,
                   responseSeconds, responseSecondsHist, responseBytes, parseErrorsTotal>>
    /\ UNCHANGED <<envVars, tailVars, waitVars, mainVars, procVars, scraping>>

\* a variant that records the histogram observation under empty label values
ConsumerUpstreamHistNoLabels ==
    /\ Running /\ cpc = "upstreamHist"
    /\ upstreamSecondsHist' = Observe(upstreamSecondsHist, NoLabels,
                                      FloatField(entry, "upstream_response_time"))
    /\ cpc' = "response"
    /\ UNCHANGED <<curLine, entry, labelValues, delivered>>
    /\ UNCHANGED <<countTotal, bytesTotal, upstreamSeconds, upstreamBytes,
                   responseSeconds, responseSecondsHist, responseBytes, parseErrorsTotal>>
    /\ UNCHANGED <<envVars, tailVars, waitVars, mainVars, procVars, scraping>>

\* upstream_response_time: upstreamSecondsHist.Observe
ConsumerUpstreamHist ==
    /\ Running /\ cpc = "upstreamHist"
    /\ upstreamSecondsHist' = Observe(upstreamSecondsHist, labelValues,
                                      FloatField(entry, "upstream_response_time"))
    /\ cpc' = "response"
    /\ UNCHANGED <<curLine, entry, labelValues, delivered>>
    /\ UNCHANGED <<countTotal, bytesTotal, upstreamSeconds, upstreamBytes,
                   responseSeconds, responseSecondsHist, responseBytes, parseErrorsTotal>>
    /\ UNCHANGED <<envVars, tailVars, waitVars, mainVars, procVars, scraping>>

\* request_time: responseSeconds.Observe
ConsumerResponse ==
    /\ Running /\ cpc = "response"
    /\ IF FloatFieldOk(entry, "request_time")
       THEN /\ responseSeconds' = Observe(responseSeconds, labelValues,
                                          FloatField(entry, "request_time"))
            /\ cpc' = "responseHist"
            /\ UNCHANGED <<curLine, entry, labelValues>>
       ELSE /\ NextLine
            /\ UNCHANGED responseSeconds
    /\ UNCHANGED delivered
    /\ UNCHANGED <<countTotal, bytesTotal, upstreamSeconds, upstreamSecondsHist, upstreamBytes,
                   responseSecondsHist, responseBytes, parseErrorsTotal>>
    /\ UNCHANGED <<envVars, tailVars, waitVars, mainVars, procVars, scraping>>

\* request_time: responseSecondsHist.Observe, then the next line
ConsumerResponseHist ==
    /\ Running /\ cpc = "responseHist"
    /\ responseSecondsHist' = Observe(responseSecondsHist, labelValues,
                                      FloatField(entry, "request_time"))
    /\ NextLine
    /\ UNCHANGED delivered
    /\ UNCHANGED <<countTotal, bytesTotal, upstreamSeconds, upstreamSecondsHist, upstreamBytes,
                   responseSeconds, responseBytes, parseErrorsTotal>>
    /\ UNCHANGED <<envVars, tailVars, waitVars, mainVars, procVars, scraping>>

\* -------------------------------------------------------------------- Next
Writer == AppendLine \/ Rotate \/ Truncate \/ Create

main ==
    \/ \E ok \in BOOLEAN, fmt \in Formats, lbls \in LabelConfigs : MainParseArgs(ok, fmt, lbls)
    \/ MainNewFollower \/ MainOnError \/ MainMetricsInit \/ MainGo
    \/ \E bindOk \in BOOLEAN : MainListen(bindOk)

TailFileSync ==
    \/ TailOpen \/ (\E l \in LineSet : TailReadLine(l))
    \/ TailDeleted \/ TailTruncated \/ TailClose \/ TailDone

processLogFile ==
    \/ ConsumerEnd \/ ConsumerParse \/ ConsumerCount \/ ConsumerBytes
    \/ ConsumerUpstream \/ ConsumerUpstreamHist \/ ConsumerResponse \/ ConsumerResponseHist

Next == Writer \/ main \/ TailFileSync \/ Deliver \/ OnErrorWait \/ processLogFile

Spec == Init /\ [][Next]_vars

\* The same with scrape requests served.  A scrape reads the registry and
\* writes no variable but its own, so Spec and SpecScrape agree on everything
\* that does not mention `scraping`.
Scrape == ScrapeBegin \/ ScrapeEnd
NextScrape == Next \/ Scrape
SpecScrape == Init /\ [][NextScrape]_vars


\* ================================================================== claims
RECURSIVE SumOver(_, _)
SumOver(f, S) ==
    IF S = {} THEN 0
    ELSE LET x == CHOOSE y \in S : TRUE IN f[x] + SumOver(f, S \ {x})

\* the sum of a counter family over its label sets
Total(vec) == SumOver(vec, DOMAIN vec)
\* the number of observations of a summary or histogram family
Observations(vec) == SumOver([lv \in DOMAIN vec |-> vec[lv].count], DOMAIN vec)

\* the delivered lines, by their place in `delivered`
Idx == 1..Len(delivered)
TextOf(i) == written[delivered[i]]
EntryOf(i) == ParseString(parser, TextOf(i))
\* the consumer is through with the parse of the i-th delivered line
ParseTried(i) ==
    i < Len(delivered) \/ cpc # "parse" \/ exitCause \in {"parse_fatal", "index_panic"}
Rejected == {i \in Idx : ParseTried(i) /\ ~ParseOk(parser, TextOf(i))}
Parsed == {i \in Idx : ParseTried(i) /\ ParseOk(parser, TextOf(i))}
Numeric(name) == {i \in Parsed : FloatFieldOk(EntryOf(i), name)}

\* the consumer is between lines, or the process ended in the consumer
ConsumerAtRest ==
    \/ cpc \in {"recv", "done"}
    \/ exitCause \in {"parse_fatal", "index_panic", "counter_panic"}

\* C1: every delivered line that the parser rejects adds exactly 1 to the
\* parse-error counter and changes no other metric.
C1_RejectedLineCounted ==
    [][ (ConsumerParse /\ ~ParseOk(parser, written[curLine]))
          => /\ parseErrorsTotal' = parseErrorsTotal + 1
             /\ UNCHANGED <<countTotal, bytesTotal, upstreamSeconds, upstreamSecondsHist,
                            upstreamBytes, responseSeconds, responseSecondsHist,
                            responseBytes>> ]_vars

\* C2: no per-line failure stops ingestion: the process ends only on a
\* configuration or follower failure, and the loop ends only when the
\* follower has closed the line stream.
C2_OnlyFollowerOrConfigStops ==
    /\ proc = "exited" =>
          exitCause \in {"args_panic", "open_panic", "follower_panic", "listen_returned"}
    /\ cpc = "done" => linesClosed

\* C3: the labels of a parsed entry are (status or "", first token of request
\* or "" when request is absent, empty or blank), and deriving them never fails.
ClaimedLabelSet(e) ==
    << IF FieldOk(e, "status") THEN Field(e, "status") ELSE EmptyText,
       IF FieldOk(e, "request") /\ Fields(Field(e, "request")) # <<>>
       THEN Fields(Field(e, "request"))[1] ELSE EmptyText >>

C3_LabelSetDerived ==
    /\ exitCause # "index_panic"
    /\ cpc \in {"count", "bytes", "upstream", "upstreamHist", "response", "responseHist"}
          => labelValues = ClaimedLabelSet(entry)

\* C4: between lines, the total-request counter summed over all label sets is
\* the number of lines that parsed successfully.
C4_CountEqualsParsed ==
    ConsumerAtRest => Total(countTotal) = Cardinality(Parsed)

\* C5: between lines, each of the three numeric fields has been applied for
\* exactly the parsed lines where it is numeric, whatever the other two
\* fields were, and no field error was counted as a parse error.
C5_NumericFieldsIndependent ==
    ConsumerAtRest =>
        /\ Total(bytesTotal) =
              SumOver([i \in Idx |-> IF i \in Numeric("body_bytes_sent")
                                     THEN FloatField(EntryOf(i), "body_bytes_sent")
                                     ELSE 0], Idx)
        /\ Observations(upstreamSeconds) = Cardinality(Numeric("upstream_response_time"))
        /\ Observations(upstreamSecondsHist) = Cardinality(Numeric("upstream_response_time"))
        /\ Observations(responseSeconds) = Cardinality(Numeric("request_time"))
        /\ Observations(responseSecondsHist) = Cardinality(Numeric("request_time"))
        /\ parseErrorsTotal <= Cardinality(Rejected)

\* C6: the delivered lines are exactly the lines appended after the follower
\* started, in append order: the i-th delivered line is the i-th appended one.
C6_AppendOrderExactlyOnce ==
    \A i \in Idx : delivered[i] = nHist + i

\* C7: no line that was in the file before the follower started is delivered.
C7_NoHistoryReplayed ==
    \A i \in Idx : delivered[i] > nHist

\* C8: with the log path missing or inaccessible the process ends at
\* NewFollower: it registers no metric, starts no loop and never serves.
C8_BadPathFatalAtStartup ==
    pathState # "ok" =>
        /\ mpc \in {"parseArgs", "newFollower"}
        /\ ~registered /\ cpc = "none" /\ wpc = "none" /\ tpc = "none"

\* C9: a rotation of the watched file leaves the line stream open and the
\* consumer running.
C9_RotationKeepsStreamOpen ==
    gen > 1 =>
        /\ tpc \notin {"closing", "finishing", "dead"}
        /\ ~linesClosed /\ cpc # "done"

\* C10: the process is never left serving with the processing loop ended and
\* nothing left that could end it.
StalledSilently ==
    /\ Running /\ mpc = "serving"
    /\ cpc = "done" /\ tpc = "dead" /\ wpc = "done"
C10_NoSilentStall == ~StalledSilently

\* C11: the error callback of the follower runs at most once in a run, only
\* once the tail goroutine has ended with an error, and never because a line
\* failed in the consumer.
C11_CallbackOnceAfterLoopEnd ==
    /\ cbCalls <= 1
    /\ cbCalls > 0 =>
          /\ tpc = "dead" /\ tomb = "err" /\ linesClosed
          /\ wpc = "callback" /\ exitCause = "follower_panic"
    /\ exitCause \in {"parse_fatal", "index_panic", "counter_panic"} => cbCalls = 0
\* the callback has run
C11_CallbackRan == cbCalls = 1 /\ proc = "exited"

\* the consumer is in the middle of the updates of one line
MidLine == {"count", "bytes", "upstream", "upstreamHist", "response", "responseHist"}

C13_StaticLabelsAttached ==
    registered => Labels \subseteq constLabels

\* C14: the compiled format and the registry are set in one step of main,
\* from the unset state and before the consumer exists; from the start of the
\* consumer on, for every line it receives, the registry is there and the
\* compiled plan is the configured format, and neither changes again.
C14_CompiledAndRegisteredOnce ==
    /\ [][ (parser' # parser \/ registered' # registered \/ constLabels' # constLabels) =>
               /\ mpc = "init" /\ mpc' = "go"
               /\ ~registered /\ parser = <<>>
               /\ cpc = "none" /\ delivered = <<>> ]_vars
    /\ []((cpc # "none" \/ delivered # <<>>) =>
              registered /\ parser = format /\ parser \in Formats)
\* two lines were processed to their end with the plan and the registry in place
C14_TwoLinesProcessed ==
    Len(delivered) >= 2 /\ cpc = "recv" /\ registered /\ parser = format

\* the value a counter family shows for a label set
CounterValue(vec, lv) == IF lv \in DOMAIN vec THEN vec[lv] ELSE 0
\* the parsed lines that have the label set lv
WithLabelSet(lv) ==
    {i \in Parsed : ~LabelsPanic(EntryOf(i)) /\ LabelsOf(EntryOf(i)) = lv}
LabelSetsSeen ==
    {LabelsOf(EntryOf(i)) : i \in {j \in Parsed : ~LabelsPanic(EntryOf(j))}}
BytesOf(lv) ==
    SumOver([i \in Idx |-> IF i \in WithLabelSet(lv) \cap Numeric("body_bytes_sent")
                           THEN FloatField(EntryOf(i), "body_bytes_sent")
                           ELSE 0], Idx)
BytesTotalMatches ==
    \A lv \in LabelSetsSeen \cup DOMAIN bytesTotal :
        CounterValue(bytesTotal, lv) = BytesOf(lv)

\* C15: between lines the bytes-total counter of every label set is the sum
\* of the numeric body_bytes_sent values of the parsed lines with that label
\* set, and no such value stops the loop.
C15_BytesTotalIsSum ==
    /\ exitCause # "counter_panic"
    /\ ConsumerAtRest => BytesTotalMatches

\* the number of observations a summary or histogram family holds for a label set
ObservationsFor(vec, lv) == IF lv \in DOMAIN vec THEN vec[lv].count ELSE 0
AllLabelSets ==
    DOMAIN countTotal \cup DOMAIN upstreamSeconds \cup DOMAIN upstreamSecondsHist
        \cup DOMAIN responseSeconds \cup DOMAIN responseSecondsHist

\* C16: while the consumer waits for the next line, for every label set the
\* upstream summary and histogram hold the same number of observations, so do
\* the response summary and histogram, and neither holds more than the
\* request counter of that label set counts lines.
C16_SummaryAndHistogramPaired ==
    cpc = "recv" =>
        \A lv \in AllLabelSets :
            /\ ObservationsFor(upstreamSeconds, lv) = ObservationsFor(upstreamSecondsHist, lv)
            /\ ObservationsFor(responseSeconds, lv) = ObservationsFor(responseSecondsHist, lv)
            /\ ObservationsFor(upstreamSeconds, lv) <= CounterValue(countTotal, lv)
            /\ ObservationsFor(responseSeconds, lv) <= CounterValue(countTotal, lv)
\* the consumer waits for a line with upstream and response times recorded
C16_BothPairsRecorded ==
    /\ cpc = "recv"
    /\ Observations(upstreamSeconds) > 0 /\ Observations(responseSeconds) > 0

\* C17: the upstream-bytes and response-bytes families hold no value for any
\* label set, whatever lines were processed.
C17_BytesFamiliesNeverUpdated ==
    /\ DOMAIN upstreamBytes = {} /\ Total(upstreamBytes) = 0
    /\ DOMAIN responseBytes = {} /\ Total(responseBytes) = 0
\* a line with numeric bytes and upstream time was processed to its end
C17_BytesLineProcessed ==
    /\ cpc = "recv" /\ Total(bytesTotal) > 0
    /\ Observations(upstreamSecondsHist) > 0

====
